---- MODULE Spec2Model ----
(***************************************************************************)
(* Host shell of the Agentverse desktop application                        *)
(* (frontend/src-tauri/src/main.rs): the three commands, the command       *)
(* table built by generate_handler!, the setup closure that fetches the    *)
(* "main" window and sets its minimum size, and the run of the event loop. *)
(***************************************************************************)
EXTENDS Integers, Sequences, FiniteSets, TLC

\* ------------------------------------------------------------------ bounds
\* Number of invocation requests the UI surface sends in one process run.
MaxRequests == 3

\* ------------------------------------------------------- program constants
\* tauri::LogicalSize::new(1200, 700)
MinWidth == 1200
MinHeight == 700

\* env!("CARGO_PKG_VERSION"): fixed when the program is compiled.
CARGO_PKG_VERSION == "CARGO_PKG_VERSION"

\* The unit value a command without return value resolves with.
Unit == "()"

\* ------------------------------------------------------------ environment
\* Names the UI surface may put in a request: the three commands of the
\* program and one name the program does not know.
CommandNames == {"greet", "get_app_version", "open_external"}
UnknownNames == {"echo"}
NoArg == "<none>"
GoodUrl == "https://example.com"
BadUrl == "not a url"
Urls == {GoodUrl, BadUrl}
Names == {"World"}

\* Requests arrive with arguments already of the command's parameter type.
ArgsOf(cmd) ==
    CASE cmd = "greet" -> Names
      [] cmd = "open_external" -> Urls
      [] OTHER -> {NoArg}

\* Sizes the window configuration or a user resize may ask for.
Widths == {800, 1600}
Heights == {500, 900}
ResizeHeights == {500, 1000}

Ids == 1..MaxRequests

Max(a, b) == IF a >= b THEN a ELSE b

VARIABLES
    lifecycle,   \* position of main(): see Lifecycles
    registry,    \* command table of the builder: set of <<name, handler>>
    window,      \* the window labelled "main"
    requests,    \* every request the UI surface has sent
    pending,     \* requests sent and not yet taken by the invoke handler
    responses,   \* responses delivered to the UI surface, in order
    calls,       \* per command, how often its function was called
    executed,    \* per request id, how many command calls it caused
    opened,      \* URLs the platform launcher has opened
    nextId       \* correlation id of the next request

vars == <<lifecycle, registry, window, requests, pending, responses,
          calls, executed, opened, nextId>>

Lifecycles == {"Uninitialized", "CommandsRegistered", "WindowCreated",
               "Running", "ShuttingDown", "Terminated", "Aborted"}

NoWindow == [exists |-> FALSE, width |-> 0, height |-> 0,
             minWidth |-> 0, minHeight |-> 0]

\* ---------------------------------------------------------------- commands
\* fn greet(name: &str) -> String
greet(name) == "Hello, " \o name \o "! You've been greeted from Rust!"

\* fn get_app_version() -> String
get_app_version == CARGO_PKG_VERSION

\* webbrowser::open(url): the platform launcher. A malformed URL always
\* fails; a well-formed one opens when the platform lets it.
webbrowser_open(url, launcherOk) ==
    IF url = GoodUrl /\ launcherOk THEN "Ok" ELSE "Err"

\* Variant of open_external that unwraps the launcher's result.
open_external_unwrap(url, launcherOk) ==
    [ret |-> Unit,
     opened |-> IF webbrowser_open(url, launcherOk) = "Ok" THEN {url} ELSE {},
     panicked |-> webbrowser_open(url, launcherOk) = "Err"]

\* fn open_external(url: &str) { let _ = webbrowser::open(url); }
open_external(url, launcherOk) ==
    [ret |-> Unit,
     opened |-> IF webbrowser_open(url, launcherOk) = "Ok" THEN {url} ELSE {},
     panicked |-> FALSE]

\* Variant of the command table that binds greet to the wrong function.
generate_handler_swapped ==
    {<<"greet", "get_app_version">>,
     <<"get_app_version", "get_app_version">>,
     <<"open_external", "open_external">>}

\* tauri::generate_handler![greet, get_app_version, open_external]
generate_handler == {<<c, c>> : c \in CommandNames}

\* Handlers the table holds under a name.
resolve(reg, cmd) == {p[2] : p \in {q \in reg : q[1] = cmd}}

OkResponse(id, payload) ==
    [id |-> id, status |-> "ok", kind |-> "", payload |-> payload]

ErrResponse(id, kind) ==
    [id |-> id, status |-> "error", kind |-> kind, payload |-> ""]

\* One call of a command function for a request.
call_command(h, req, launcherOk) ==
    CASE h = "greet" ->
           [responses |-> <<OkResponse(req.id, greet(req.arg))>>,
            invoked |-> <<h>>, opened |-> {}, panicked |-> FALSE]
      [] h = "get_app_version" ->
           [responses |-> <<OkResponse(req.id, get_app_version)>>,
            invoked |-> <<h>>, opened |-> {}, panicked |-> FALSE]
      [] OTHER ->
           LET r == open_external(req.arg, launcherOk) IN
           [responses |-> IF r.panicked THEN <<>>
                          ELSE <<OkResponse(req.id, r.ret)>>,
            invoked |-> <<h>>, opened |-> r.opened, panicked |-> r.panicked]

\* Variant of the invoke handler that falls back to greet for a name it
\* does not know.
invoke_handler_fallback(reg, req, launcherOk) ==
    LET hs == resolve(reg, req.cmd) IN
    IF hs = {}
    THEN call_command("greet", req, launcherOk)
    ELSE call_command(CHOOSE h \in hs : TRUE, req, launcherOk)

\* Variant of the invoke handler that calls the command a second time.
invoke_handler_retry(reg, req, launcherOk) ==
    LET hs == resolve(reg, req.cmd) IN
    IF hs = {}
    THEN [responses |-> <<ErrResponse(req.id, "UnknownCommandError")>>,
          invoked |-> <<>>, opened |-> {}, panicked |-> FALSE]
    ELSE LET r == call_command(CHOOSE h \in hs : TRUE, req, launcherOk) IN
         [r EXCEPT !.invoked = @ \o @]

\* The invoke handler generate_handler! builds: a match on the command
\* name, one arm per command, and a default arm that rejects the request
\* ("command not found") without calling anything.
invoke_handler(reg, req, launcherOk) ==
    LET hs == resolve(reg, req.cmd) IN
    IF hs = {}
    THEN [responses |-> <<ErrResponse(req.id, "UnknownCommandError")>>,
          invoked |-> <<>>, opened |-> {}, panicked |-> FALSE]
    ELSE call_command(CHOOSE h \in hs : TRUE, req, launcherOk)

\* ------------------------------------------------------------------ window
\* Variant of set_min_size with the two dimensions exchanged.
set_min_size_swapped(win, platformOk) ==
    IF platformOk
    THEN [result |-> "Ok",
          window |-> [win EXCEPT !.minWidth = MinHeight,
                                 !.minHeight = MinWidth,
                                 !.width = Max(@, MinHeight),
                                 !.height = Max(@, MinWidth)]]
    ELSE [result |-> "Err", window |-> win]

\* window.set_min_size(Some(LogicalSize::new(1200, 700))): on success the
\* platform records the constraint and grows a smaller window to it.
set_min_size(win, platformOk) ==
    IF platformOk
    THEN [result |-> "Ok",
          window |-> [win EXCEPT !.minWidth = MinWidth,
                                 !.minHeight = MinHeight,
                                 !.width = Max(@, MinWidth),
                                 !.height = Max(@, MinHeight)]]
    ELSE [result |-> "Err", window |-> win]

\* Variant of the setup closure that goes on without a main window.
setup_no_unwrap(win, platformOk) ==
    IF ~win.exists
    THEN [result |-> "Ok", window |-> win]
    ELSE [result |-> "Ok", window |-> set_min_size(win, platformOk).window]

\* Variant of the setup closure that unwraps the result of set_min_size.
setup_unwrap_min_size(win, platformOk) ==
    IF ~win.exists
    THEN [result |-> "Panic", window |-> win]
    ELSE [result |-> IF set_min_size(win, platformOk).result = "Ok"
                     THEN "Ok" ELSE "Panic",
          window |-> set_min_size(win, platformOk).window]

\* The setup closure: get_window("main").unwrap() panics without a main
\* window; the result of set_min_size is dropped (let _ =); Ok(()).
setup(win, platformOk) ==
    IF ~win.exists
    THEN [result |-> "Panic", window |-> win]
    ELSE [result |-> "Ok", window |-> set_min_size(win, platformOk).window]

\* A resize asked of the platform: it keeps the window at or above the
\* minimum size in force.
resize(win, w, h) ==
    [win EXCEPT !.width = Max(w, win.minWidth),
                !.height = Max(h, win.minHeight)]

\* Variant in which requests are also handled while the loop winds down.
DispatcherReachable_drain(lc) == lc \in {"Running", "ShuttingDown"}

\* Variant in which requests are handled as soon as the window exists.
DispatcherReachable_early(lc) == lc \in {"WindowCreated", "Running"}

\* The invoke handler runs only from the event loop that run() enters.
DispatcherReachable(lc) == lc = "Running"

\* ----------------------------------------------------------------- actions
Init ==
    /\ lifecycle = "Uninitialized"
    /\ registry = {}
    /\ window = NoWindow
    /\ requests = {}
    /\ pending = {}
    /\ responses = <<>>
    /\ calls = [c \in CommandNames |-> 0]
    /\ executed = [i \in Ids |-> 0]
    /\ opened = {}
    /\ nextId = 1

\* Builder::default().invoke_handler(generate_handler![...])
RegisterCommands ==
    /\ lifecycle = "Uninitialized"
    /\ lifecycle' = "CommandsRegistered"
    /\ registry' = generate_handler
    /\ UNCHANGED <<window, requests, pending, responses, calls, executed,
                   opened, nextId>>

\* run(): the windows of the configuration are created. The platform may
\* fail (run returns Err and expect panics), and the configuration may
\* hold no window labelled "main".
CreateWindows ==
    /\ lifecycle = "CommandsRegistered"
    /\ \E outcome \in {"main", "no_main", "platform_error"} :
         \E w \in Widths, h \in Heights :
           CASE outcome = "main" ->
                  /\ window' = [exists |-> TRUE, width |-> w, height |-> h,
                                minWidth |-> 0, minHeight |-> 0]
                  /\ lifecycle' = "WindowCreated"
             [] outcome = "no_main" ->
                  /\ window' = NoWindow
                  /\ lifecycle' = "WindowCreated"
             [] OTHER ->
                  /\ window' = NoWindow
                  /\ lifecycle' = "Aborted"
    /\ UNCHANGED <<registry, requests, pending, responses, calls, executed,
                   opened, nextId>>

\* run(): the setup closure, then the event loop; a panic or an Err of
\* setup ends the process through expect.
Setup ==
    /\ lifecycle = "WindowCreated"
    /\ \E platformOk \in BOOLEAN :
         LET s == setup(window, platformOk) IN
         /\ window' = s.window
         /\ lifecycle' = IF s.result = "Ok" THEN "Running" ELSE "Aborted"
    /\ UNCHANGED <<registry, requests, pending, responses, calls, executed,
                   opened, nextId>>

\* The UI surface of the window sends a request; it carries a fresh
\* correlation id (the callback id of the invoke message).
Invoke ==
    /\ window.exists
    /\ lifecycle \in {"WindowCreated", "Running"}
    /\ nextId <= MaxRequests
    /\ \E cmd \in CommandNames \cup UnknownNames :
         \E arg \in ArgsOf(cmd) :
           LET req == [id |-> nextId, cmd |-> cmd, arg |-> arg] IN
           /\ requests' = requests \cup {req}
           /\ pending' = pending \cup {req}
    /\ nextId' = nextId + 1
    /\ UNCHANGED <<lifecycle, registry, window, responses, calls, executed,
                   opened>>

RECURSIVE Count(_, _)
Count(s, x) ==
    IF s = <<>> THEN 0
    ELSE (IF Head(s) = x THEN 1 ELSE 0) + Count(Tail(s), x)

\* The event loop hands one request to the invoke handler, which runs the
\* command to its end and resolves the request.
Dispatch ==
    /\ DispatcherReachable(lifecycle)
    /\ \E req \in pending :
         \E launcherOk \in BOOLEAN :
           LET r == invoke_handler(registry, req, launcherOk) IN
           /\ pending' = pending \ {req}
           /\ responses' = responses \o r.responses
           /\ calls' = [c \in CommandNames |-> calls[c] + Count(r.invoked, c)]
           /\ executed' = [executed EXCEPT ![req.id] = @ + Len(r.invoked)]
           /\ opened' = opened \cup r.opened
           /\ lifecycle' = IF r.panicked THEN "Aborted" ELSE lifecycle
    /\ UNCHANGED <<registry, window, requests, nextId>>

\* The user resizes the window.
Resize ==
    /\ lifecycle = "Running"
    /\ window.exists
    /\ \E w \in Widths, h \in ResizeHeights : window' = resize(window, w, h)
    /\ UNCHANGED <<lifecycle, registry, requests, pending, responses, calls,
                   executed, opened, nextId>>

\* The user closes the only window (or quits): the window is destroyed
\* and the event loop is asked to exit.
CloseWindow ==
    /\ lifecycle = "Running"
    /\ lifecycle' = "ShuttingDown"
    /\ window' = NoWindow
    /\ UNCHANGED <<registry, requests, pending, responses, calls, executed,
                   opened, nextId>>

\* The event loop ends and the process exits.
Exit ==
    /\ lifecycle = "ShuttingDown"
    /\ lifecycle' = "Terminated"
    /\ UNCHANGED <<registry, window, requests, pending, responses, calls,
                   executed, opened, nextId>>

Next ==
    \/ RegisterCommands
    \/ CreateWindows
    \/ Setup
    \/ Invoke
    \/ Dispatch
    \/ Resize
    \/ CloseWindow
    \/ Exit

Spec == Init /\ [][Next]_vars

TypeOK ==
    /\ lifecycle \in Lifecycles
    /\ pending \subseteq requests
    /\ nextId \in 1..(MaxRequests + 1)

\* ------------------------------------------------------------ claim helpers
Dispatched == requests \ pending

RespIdx(id) == {i \in 1..Len(responses) : responses[i].id = id}

RespCount(id) == Cardinality(RespIdx(id))

StartupStates == {"Uninitialized", "CommandsRegistered", "WindowCreated"}

RunningOnward == {"Running", "ShuttingDown", "Terminated"}

\* ---------------------------------------------------------------------- C1
\* C1: a request whose command name is not greet, get_app_version or
\* open_external is answered with exactly one error response of kind
\* UnknownCommandError, and dispatching it calls no command: every call
\* count, and the set of opened URLs, is the same after the step as before.
C1_UnknownFailsClosed ==
    /\ [](\A r \in Dispatched :
            r.cmd \notin CommandNames =>
              /\ executed[r.id] = 0
              /\ RespCount(r.id) = 1
              /\ \A i \in RespIdx(r.id) :
                   responses[i] = ErrResponse(r.id, "UnknownCommandError"))
    /\ [][\A r \in pending :
            (r \notin pending' /\ r.cmd \notin CommandNames) =>
              (calls' = calls /\ executed' = executed /\ opened' = opened)]_vars

\* C1 witness: an unknown command has been dispatched and answered.
C1_Witness ==
    \E r \in Dispatched :
      /\ r.cmd \notin CommandNames
      /\ \E i \in RespIdx(r.id) : responses[i].status = "error"

C3_DispatchNeverTerminates ==
    /\ [][(lifecycle = "Running" /\ pending' # pending /\ requests' = requests)
            => lifecycle' = "Running"]_vars
    /\ [](lifecycle = "Aborted" => (Dispatched = {} /\ responses = <<>>))

\* C3 witness: an unknown command and an open_external with a malformed
\* URL have both been dispatched, and the application is still Running.
C3_Witness ==
    /\ lifecycle = "Running"
    /\ \E i \in 1..Len(responses) : responses[i].kind = "UnknownCommandError"
    /\ \E r \in Dispatched : r.cmd = "open_external" /\ r.arg = BadUrl
    /\ opened = {}

\* ---------------------------------------------------------------------- C4
\* C4: when open_external is dispatched with a URL the platform launcher
\* fails to open, the response has status error and kind HandlerFailure.
C4_LauncherFailureReported ==
    \A r \in Dispatched :
      (r.cmd = "open_external" /\ r.arg = BadUrl) =>
        \A i \in RespIdx(r.id) :
          responses[i].status = "error" /\ responses[i].kind = "HandlerFailure"

\* ---------------------------------------------------------------------- C5
SpecStartupOrder ==
    {<<"Uninitialized", "WindowCreated">>,
     <<"WindowCreated", "CommandsRegistered">>,
     <<"CommandsRegistered", "Running">>,
     <<"Uninitialized", "Aborted">>,
     <<"WindowCreated", "Aborted">>,
     <<"CommandsRegistered", "Aborted">>}

CodeStartupOrder ==
    {<<"Uninitialized", "CommandsRegistered">>,
     <<"CommandsRegistered", "WindowCreated">>,
     <<"WindowCreated", "Running">>,
     <<"CommandsRegistered", "Aborted">>,
     <<"WindowCreated", "Aborted">>}

\* C5 as stated: startup goes Uninitialized -> WindowCreated ->
\* CommandsRegistered -> Running, the window being created before the
\* commands are registered, and nothing is dispatched before Running.
C5_WindowFirstOrder ==
    /\ [][(lifecycle \in StartupStates /\ lifecycle' # lifecycle)
            => <<lifecycle, lifecycle'>> \in SpecStartupOrder]_vars
    /\ [](registry # {} => lifecycle # "CommandsRegistered" \/ window.exists)
    /\ [](lifecycle \in StartupStates => responses = <<>>)

\* C5 amended: startup goes Uninitialized -> CommandsRegistered ->
\* WindowCreated -> Running with no state skipped or reordered: the command
\* table is in place before the main window exists, Running is entered only
\* from WindowCreated, and before Running no request has been dispatched:
\* no response, no command call, no URL opened.
C5_RegistryFirstOrder ==
    /\ [][(lifecycle \in StartupStates /\ lifecycle' # lifecycle)
            => <<lifecycle, lifecycle'>> \in CodeStartupOrder]_vars
    /\ [][(lifecycle' = "Running" /\ lifecycle # "Running")
            => lifecycle = "WindowCreated"]_vars
    /\ [](window.exists => registry # {})
    /\ [](lifecycle \in StartupStates =>
            /\ responses = <<>>
            /\ Dispatched = {}
            /\ \A c \in CommandNames : calls[c] = 0
            /\ opened = {})

\* C5 witness: startup is over, one request has been dispatched in
\* Running and another is still waiting.
C5_Witness ==
    /\ lifecycle = "Running"
    /\ registry # {}
    /\ window.exists
    /\ Len(responses) = 1
    /\ pending # {}

\* ---------------------------------------------------------------------- C6
\* C6: without a main window startup aborts and never reaches Running, an
\* aborted process stays aborted, and in every Running state the main
\* window exists and the command table names exactly greet,
\* get_app_version and open_external.
C6_StartupErrorsFatal ==
    /\ [][(lifecycle = "WindowCreated" /\ ~window.exists
             /\ lifecycle' # lifecycle) => lifecycle' = "Aborted"]_vars
    /\ [][lifecycle = "Aborted" => lifecycle' = "Aborted"]_vars
    /\ [](lifecycle = "Running" =>
            /\ window.exists
            /\ {p[1] : p \in registry} = CommandNames)

\* C6 witness: startup was aborted for want of a main window.
C6_Witness ==
    /\ lifecycle = "Aborted"
    /\ ~window.exists
    /\ registry # {}
    /\ requests = {}

\* ---------------------------------------------------------------------- C7
\* C7: a minimum size in force on the main window is 1200x700 and the
\* window is at least that wide and high; as long as the window exists the
\* constraint stays 1200x700 through every step (resize, dispatch of any
\* command, further requests).
C7_MinSizeKept ==
    /\ []((window.minWidth # 0 \/ window.minHeight # 0) =>
            /\ window.exists
            /\ window.minWidth = MinWidth
            /\ window.minHeight = MinHeight
            /\ window.width >= MinWidth
            /\ window.height >= MinHeight)
    /\ [][(window.exists /\ window.minWidth # 0 /\ window'.exists) =>
            (window'.minWidth = window.minWidth
             /\ window'.minHeight = window.minHeight)]_vars

\* C7 witness: with the constraint in force a resize to 800x1000 was asked
\* for and the width was held at the minimum.
C7_Witness ==
    /\ window.exists
    /\ window.minWidth = MinWidth
    /\ window.width = MinWidth
    /\ window.height = 1000

ExpectedPayload(r) ==
    CASE r.cmd = "greet" -> greet(r.arg)
      [] r.cmd = "get_app_version" -> CARGO_PKG_VERSION
      [] OTHER -> Unit

\* C9: the command table changes once, from empty, before the window
\* exists; from Running onward it maps greet, get_app_version and
\* open_external each to its own function and no step changes it; every
\* dispatched request naming a command was answered by that command.
C9_RegistryReadOnly ==
    /\ [][registry' # registry =>
            (registry = {} /\ lifecycle = "Uninitialized")]_vars
    /\ [](lifecycle \in RunningOnward =>
            registry = {<<"greet", "greet">>,
                        <<"get_app_version", "get_app_version">>,
                        <<"open_external", "open_external">>})
    /\ [](\A r \in Dispatched :
            r.cmd \in CommandNames =>
              \A i \in RespIdx(r.id) :
                responses[i] = OkResponse(r.id, ExpectedPayload(r)))

\* C9 witness: a greet and an unknown command have both been dispatched
\* and the table still holds its three entries.
C9_Witness ==
    /\ lifecycle = "Running"
    /\ Cardinality(registry) = 3
    /\ \E r \in Dispatched : r.cmd = "greet"
    /\ \E r \in Dispatched : r.cmd \notin CommandNames

\* --------------------------------------------------------------------- C10
\* C10: with a main window present the only way out of setup is into
\* Running, whether or not set_min_size succeeded; the process is aborted
\* only in states without a main window.
C10_MinSizeFailureIgnored ==
    /\ [][(lifecycle = "WindowCreated" /\ window.exists
             /\ lifecycle' # lifecycle) => lifecycle' = "Running"]_vars
    /\ [](lifecycle = "Aborted" => ~window.exists)

\* C10 witness: Running with a main window that has no minimum size.
C10_Witness ==
    /\ lifecycle = "Running"
    /\ window.exists
    /\ window.minWidth = 0
    /\ window.minHeight = 0

====
